---- MODULE Spec2Model ----
(***************************************************************************)
(* Account lifecycle of routes/accounts.py: register, activate, login,     *)
(* refresh, password-reset request and password-reset completion, run as   *)
(* concurrent request handlers against one shared database.                *)
(*                                                                         *)
(* Every handler is split at its awaits on the database.  A handler's      *)
(* reads see the committed state at the moment of the read.  The writes of *)
(* one transaction (execute/flush .. commit) become visible to the other   *)
(* requests together, when the transaction commits, so they are one step.  *)
(* A request touches no shared state before its first read, so its arrival *)
(* and that read are one step as well.                                     *)
(*                                                                         *)
(* Spec is the system with a storage layer that does not fail on its own;  *)
(* the only storage error in it is the uniqueness violation a concurrent   *)
(* register provokes.  SpecFault adds the failure of any transaction that  *)
(* writes.                                                                 *)
(***************************************************************************)
EXTENDS Integers, Sequences, FiniteSets, TLC

\* ------------------------------------------------------------------ bounds
MaxDays == 1
MaxWeeks == 1
MaxTokens == 2
MaxLogins == 2
MaxRequests == 6

\* --------------------------------------------------------------- constants
LOGIN_TIME_DAYS == 7

\* Lifetime, in days, of an activation token and of a password-reset token.
TOKEN_TTL_DAYS == 1

\* Lifetime, in days, the codec gives a refresh JWT.
REFRESH_JWT_DAYS == 14

Procs == {"r1", "r2"}
Emails == {"a@x.com", "b@x.com"}
Passwords == {"Str0ng!pw", "N3w!passw"}

\* No handler compares the passwords of two accounts, so every account is
\* registered with the same one; login and reset present both.
RegisterPasswords == {"Str0ng!pw"}

VARIABLES
    users,                  \* table users: sequence, the id is the index
    activation_tokens,      \* table activation_tokens: set of rows
    password_reset_tokens,  \* table password_reset_tokens: set of rows
    refresh_tokens,         \* table refresh_tokens: set of rows
    now,                    \* datetime.now(timezone.utc), in days
    next_token,             \* generate_secure_token(): next fresh reset token
    next_jwt,               \* issue instant of the next refresh JWT
    req,                    \* what the handler each worker runs has read
    last,                   \* the request the last step finished, its response
    activated,              \* history: <<email, token>> of each activate that succeeded
    spent,                  \* history: reset tokens consumed or purged
    exchanged,              \* history: refresh tokens exchanged successfully
    served                  \* number of requests received so far

vars == <<users, activation_tokens, password_reset_tokens, refresh_tokens,
          now, next_token, next_jwt, req, last, activated, spent,
          exchanged, served>>

db == <<users, activation_tokens, password_reset_tokens, refresh_tokens>>

\* ------------------------------------------------------------ collaborators
\* security.passwords: an opaque digest of the plaintext.
hash_password(password) == <<"digest", password>>

\* UserModel.verify_password
verify_password(user, password) == user.hashed_password[2] = password

NoJwt == [key |-> "none", user_id |-> 0, iat |-> 0, exp |-> 0]

\* JWTAuthManager.create_refresh_token: signed with the refresh secret.
create_refresh_token(user_id, iat, exp) ==
    [key |-> "refresh", user_id |-> user_id, iat |-> iat, exp |-> exp]

\* JWTAuthManager.create_access_token: signed with the access secret.
create_access_token(user_id, t) ==
    [key |-> "access", user_id |-> user_id, iat |-> t, exp |-> t + 1]

\* JWTAuthManager.decode_refresh_token: the signature is verified against
\* the refresh secret, then the expiry; the claims otherwise.
decode_refresh_token(jwt, t) ==
    IF jwt.key # "refresh" THEN [error |-> "JWTError", user_id |-> 0]
    ELSE IF jwt.exp < t THEN [error |-> "TokenExpiredError", user_id |-> 0]
    ELSE [error |-> "", user_id |-> jwt.user_id]

\* ------------------------------------------------------------------ queries
UserIds == 1..Len(users)

\* get_user_by_email: the id of the row, 0 for None.
get_user_by_email(email) ==
    IF \E i \in UserIds : users[i].email = email
    THEN CHOOSE i \in UserIds : users[i].email = email
    ELSE 0

RowId(rows) == IF rows = {} THEN 0 ELSE (CHOOSE r \in rows : TRUE).id

\* ---------------------------------------------------------------- responses
Response(status, detail) ==
    [status |-> status, detail |-> detail, id |-> 0,
     access_token |-> NoJwt, refresh_token |-> NoJwt]

\* A suspended handler: the position and the locals it still uses.
\* after: the request arrived after its token had been consumed or purged
\* (for a refresh token: exchanged);
\* valid: the token it presented was, at the read, a persisted unexpired
\* token of the account its email names.
Idle == [pc |-> "idle", email |-> "", password |-> "", token |-> 0,
         user |-> 0, row |-> 0, after |-> FALSE, valid |-> FALSE]

NoLast == [op |-> "none", email |-> "", after |-> FALSE, valid |-> FALSE,
           resp |-> Response(0, "")]

\* The handler of worker p, run for request r, returns resp: the worker is
\* free again.
Finish(p, op, r, resp) ==
    /\ req' = [req EXCEPT ![p] = Idle]
    /\ last' = [op |-> op, email |-> r.email, after |-> r.after,
                valid |-> r.valid, resp |-> resp]

\* A request with this email.
For(email) == [Idle EXCEPT !.email = email]

Range(seq) == {seq[i] : i \in DOMAIN seq}

\* The handler of worker p suspends at its next await, with locals r.
Await(p, r) ==
    /\ req' = [req EXCEPT ![p] = r]
    /\ last' = NoLast

Free(p) == req[p].pc = "idle"

\* Worker p receives a request.
Receive(p) ==
    /\ Free(p)
    /\ served < MaxRequests
    /\ served' = served + 1

\* Reset tokens a caller can present: the strings issued so far and one that
\* was never issued.
TokenInputs == 0..(next_token - 1)

\* Activation tokens a caller can present: the string drawn at registration
\* is named by the id of the user it was drawn for; 0 was never issued.
ActivationInputs == 0..Len(users)

Init ==
    /\ users = <<>>
    /\ activation_tokens = {}
    /\ password_reset_tokens = {}
    /\ refresh_tokens = {}
    /\ now = 0
    /\ next_token = 1
    /\ next_jwt = 1
    /\ req = [p \in Procs |-> Idle]
    /\ last = NoLast
    /\ activated = <<>>
    /\ spent = {}
    /\ exchanged = {}
    /\ served = 0

\* ------------------------------------------------------------------- clock
\* Time passes a day or a week at a time.
Tick ==
    /\ \/ /\ now % LOGIN_TIME_DAYS < MaxDays
          /\ now' = now + TOKEN_TTL_DAYS
       \/ /\ now \div LOGIN_TIME_DAYS < MaxWeeks
          /\ now' = now + LOGIN_TIME_DAYS
    /\ last' = NoLast
    /\ UNCHANGED <<db, next_token, next_jwt, req, activated, spent, exchanged, served>>

\* ---------------------------------------------------------------- register
\* lines 44-50
RegisterLookup(p) ==
    /\ Receive(p)
    /\ \E e \in Emails, pw \in RegisterPasswords :
          IF get_user_by_email(e) # 0
          THEN Finish(p, "register", For(e),
                      Response(409, "A user with this email already exists."))
          ELSE Await(p, [Idle EXCEPT !.pc = "register_commit", !.email = e,
                                     !.password = pw])
    /\ UNCHANGED <<db, now, next_token, next_jwt, activated, spent, exchanged>>

\* Variant: the account is created active.
NewUser_Active(email, password) ==
    [email |-> email, hashed_password |-> hash_password(password),
     is_active |-> TRUE]

\* lines 53-62: UserModel(email, _hashed_password, group); is_active is left
\* to its default.
NewUser(email, password) ==
    [email |-> email, hashed_password |-> hash_password(password),
     is_active |-> FALSE]

\* lines 52-81: the INSERT of the user hits the unique index on email when a
\* concurrent register has committed the same email in the meantime.
RegisterCommit(p) ==
    /\ req[p].pc = "register_commit"
    /\ IF get_user_by_email(req[p].email) # 0
       THEN /\ Finish(p, "register", req[p],
                      Response(500, "An error occurred during user creation."))
            /\ UNCHANGED db
       ELSE /\ users' = Append(users, NewUser(req[p].email, req[p].password))
            /\ activation_tokens' = activation_tokens \cup
                  {[id |-> Len(users) + 1, token |-> Len(users) + 1,
                    user_id |-> Len(users) + 1,
                    expires_at |-> now + TOKEN_TTL_DAYS]}
            /\ Finish(p, "register", req[p],
                      [Response(201, "") EXCEPT !.id = Len(users) + 1])
            /\ UNCHANGED <<password_reset_tokens, refresh_tokens>>
    /\ UNCHANGED <<now, next_token, next_jwt, activated, spent, exchanged, served>>

\* ---------------------------------------------------------------- activate
\* Variant: the handler does not look at the active flag.
AlreadyActive_Skipped(user) == FALSE

\* line 93
AlreadyActive(user) == users[user].is_active

\* lines 89-97: user is None for an unknown email and user.is_active raises
\* AttributeError, which no handler catches.
ActivateLookup(p) ==
    /\ Receive(p)
    /\ \E e \in Emails, t \in ActivationInputs :
          LET user == get_user_by_email(e)
              r == [For(e) EXCEPT !.user = user, !.token = t,
                       !.after = (<<e, t>> \in Range(activated))]
          IN  IF user = 0
              THEN Finish(p, "activate", r,
                          Response(500, "Internal Server Error"))
              ELSE IF AlreadyActive(user)
              THEN Finish(p, "activate", r,
                          Response(400, "User account is already active."))
              ELSE Await(p, [r EXCEPT !.pc = "activate_token"])
    /\ UNCHANGED <<db, now, next_token, next_jwt, activated, spent, exchanged>>

\* Variant: the owner of the token is not part of the query.
SelectActivationToken_AnyOwner(token, user) ==
    {r \in activation_tokens : r.token = token /\ r.expires_at > now}

\* lines 99-105
SelectActivationToken(token, user) ==
    {r \in activation_tokens :
        /\ r.token = token
        /\ r.expires_at > now
        /\ r.user_id = user}

\* lines 99-107, 126-129
ActivateToken(p) ==
    LET token == RowId(SelectActivationToken(req[p].token, req[p].user))
        r == [req[p] EXCEPT !.valid = \E x \in activation_tokens :
                                          /\ x.token = req[p].token
                                          /\ x.expires_at > now
                                          /\ users[x.user_id].email = req[p].email]
    IN
    /\ req[p].pc = "activate_token"
    /\ IF token # 0
       THEN Await(p, [r EXCEPT !.pc = "activate_commit", !.row = token])
       ELSE Finish(p, "activate", r,
                   Response(400, "Invalid or expired activation token."))
    /\ UNCHANGED <<db, now, next_token, next_jwt, activated, spent, exchanged, served>>

\* Variant: the account is activated and its token is kept.
ActivateCommit_KeepToken(p) ==
    /\ req[p].pc = "activate_commit"
    /\ users' = [users EXCEPT ![req[p].user].is_active = TRUE]
    /\ Finish(p, "activate", req[p],
              Response(200, "User account activated successfully."))
    /\ activated' = Append(activated, <<req[p].email, req[p].token>>)
    /\ UNCHANGED <<activation_tokens, password_reset_tokens, refresh_tokens,
                   now, next_token, next_jwt, spent, exchanged, served>>

\* lines 108-124
ActivateCommit(p) ==
    /\ req[p].pc = "activate_commit"
    /\ users' = [users EXCEPT ![req[p].user].is_active = TRUE]
    /\ activation_tokens' = {r \in activation_tokens : r.id # req[p].row}
    /\ Finish(p, "activate", req[p],
              Response(200, "User account activated successfully."))
    /\ activated' = Append(activated, <<req[p].email, req[p].token>>)
    /\ UNCHANGED <<password_reset_tokens, refresh_tokens, now, next_token,
                   next_jwt, spent, exchanged, served>>

\* --------------------------------------------------- password-reset request
\* Variant: the active flag is not part of the query.
SelectActiveUser_AnyUser(email) == get_user_by_email(email)

\* lines 137-142: the id of the active user with this email, 0 for None.
SelectActiveUser(email) ==
    LET user == get_user_by_email(email) IN
    IF user # 0 /\ users[user].is_active THEN user ELSE 0

\* Variant: the response tells whether an account was found.
ResetRequestResponse_Leaky(user) ==
    IF user = 0
    THEN Response(404, "User not found.")
    ELSE Response(200, "If you are registered, you will receive an email with instructions.")

\* lines 155-160
ResetRequestResponse(user) ==
    Response(200, "If you are registered, you will receive an email with instructions.")

\* lines 137-160.  The INSERT does not depend on what the handler has read
\* beyond the user row, which stays active, so the handler is one step, at
\* its commit.
ResetPasswordRequest(p) ==
    /\ Receive(p)
    /\ \E e \in Emails :
          LET user == SelectActiveUser(e) IN
          /\ IF user # 0
             THEN /\ next_token <= MaxTokens
                  /\ password_reset_tokens' = password_reset_tokens \cup
                        {[id |-> next_token, token |-> next_token,
                          user_id |-> user,
                          expires_at |-> now + TOKEN_TTL_DAYS]}
                  /\ next_token' = next_token + 1
             ELSE UNCHANGED <<password_reset_tokens, next_token>>
          /\ Finish(p, "reset_request", For(e), ResetRequestResponse(user))
    /\ UNCHANGED <<users, activation_tokens, refresh_tokens, now, next_jwt,
                   activated, spent, exchanged>>

\* -------------------------------------------------- password-reset complete
\* lines 171-176
SelectPasswordResetToken(token, user) ==
    {r \in password_reset_tokens : r.user_id = user /\ r.token = token}

\* lines 178-180
ResetTokenUsable(rows) ==
    /\ rows # {}
    /\ (CHOOSE r \in rows : TRUE).expires_at >= now

\* lines 169-180, 201: the account never changes its email or its id, so the
\* two reads are one step, at the second.
ResetLookup(p) ==
    /\ Receive(p)
    /\ \E e \in Emails, t \in TokenInputs, pw \in Passwords :
          LET user == get_user_by_email(e)
              rows == SelectPasswordResetToken(t, user)
              r == [Idle EXCEPT !.user = user, !.email = e,
                       !.after = (t \in spent),
                       !.valid = \E x \in password_reset_tokens :
                                    /\ x.token = t
                                    /\ x.expires_at >= now
                                    /\ user # 0
                                    /\ x.user_id = user]
          IN  IF ResetTokenUsable(rows)
              THEN Await(p, [r EXCEPT !.pc = "reset_commit",
                                !.row = RowId(rows), !.password = pw])
              ELSE Await(p, [r EXCEPT !.pc = "reset_purge"])
    /\ UNCHANGED <<db, now, next_token, next_jwt, activated, spent, exchanged>>

\* Variant: the consumed token is not deleted.
DeletePasswordResetToken_Skipped(id) == password_reset_tokens

\* lines 191-195
DeletePasswordResetToken(id) ==
    {r \in password_reset_tokens : r.id # id}

\* Variant: the password change revokes the sessions of the account.
ResetCommit_Revoking(p) ==
    /\ req[p].pc = "reset_commit"
    /\ users' = [users EXCEPT ![req[p].user].hashed_password =
                                  hash_password(req[p].password)]
    /\ password_reset_tokens' = DeletePasswordResetToken(req[p].row)
    /\ refresh_tokens' = {r \in refresh_tokens : r.user_id # req[p].user}
    /\ spent' = spent \cup {req[p].row}
    /\ Finish(p, "reset", req[p], Response(200, "Password reset successfully."))
    /\ UNCHANGED <<activation_tokens, now, next_token, next_jwt, activated,
                   exchanged, served>>

\* lines 181-199
ResetCommit(p) ==
    /\ req[p].pc = "reset_commit"
    /\ users' = [users EXCEPT ![req[p].user].hashed_password =
                                  hash_password(req[p].password)]
    /\ password_reset_tokens' = DeletePasswordResetToken(req[p].row)
    /\ spent' = spent \cup {req[p].row}
    /\ Finish(p, "reset", req[p], Response(200, "Password reset successfully."))
    /\ UNCHANGED <<activation_tokens, refresh_tokens, now, next_token,
                   next_jwt, activated, exchanged, served>>

\* Variant: a failed attempt deletes nothing.
PurgePasswordResetTokens_Skipped(user) == password_reset_tokens

\* lines 202-208
PurgePasswordResetTokens(user) ==
    {r \in password_reset_tokens : r.user_id # user}

\* lines 201-220
ResetPurge(p) ==
    /\ req[p].pc = "reset_purge"
    /\ password_reset_tokens' = PurgePasswordResetTokens(req[p].user)
    /\ spent' = spent \cup
          {r.token : r \in password_reset_tokens \ password_reset_tokens'}
    /\ Finish(p, "reset", req[p], Response(400, "Invalid email or token."))
    /\ UNCHANGED <<users, activation_tokens, refresh_tokens, now, next_token,
                   next_jwt, activated, exchanged, served>>

\* ------------------------------------------------------------------- login
\* Variant: the active flag is checked before the password.
LoginCheck_ActiveFirst(user, password) ==
    IF user = 0
    THEN Response(401, "Invalid email or password.")
    ELSE IF ~users[user].is_active
    THEN Response(403, "User account is not activated.")
    ELSE IF ~verify_password(users[user], password)
    THEN Response(401, "Invalid email or password.")
    ELSE Response(0, "")

\* Variant: the password is not verified.
LoginCheck_NoPassword(user, password) ==
    IF user = 0
    THEN Response(401, "Invalid email or password.")
    ELSE IF ~users[user].is_active
    THEN Response(403, "User account is not activated.")
    ELSE Response(0, "")

\* lines 233-249: the failure of the three checks, status 0 when they pass.
LoginCheck(user, password) ==
    IF user = 0
    THEN Response(401, "Invalid email or password.")
    ELSE IF ~verify_password(users[user], password)
    THEN Response(401, "Invalid email or password.")
    ELSE IF ~users[user].is_active
    THEN Response(403, "User account is not activated.")
    ELSE Response(0, "")

\* lines 255-259: RefreshTokenModel.create
RefreshTokenRow(user, token) ==
    [id |-> token.iat, token |-> token, user_id |-> user,
     expires_at |-> now + LOGIN_TIME_DAYS]

\* Variant: a login replaces the records the account had (one session).
Login_Evict(p) ==
    /\ Receive(p)
    /\ \E e \in Emails, pw \in Passwords :
          LET user == get_user_by_email(e)
              failure == LoginCheck(user, pw)
              refresh_token_str == create_refresh_token(user, next_jwt, now + REFRESH_JWT_DAYS)
          IN  IF failure.status # 0
              THEN /\ Finish(p, "login", For(e), failure)
                   /\ UNCHANGED <<refresh_tokens, next_jwt>>
              ELSE /\ next_jwt <= MaxLogins
                   /\ refresh_tokens' =
                         {r \in refresh_tokens : r.user_id # user} \cup
                         {RefreshTokenRow(user, refresh_token_str)}
                   /\ next_jwt' = next_jwt + 1
                   /\ Finish(p, "login", For(e), [Response(201, "") EXCEPT
                         !.access_token = create_access_token(user, now),
                         !.refresh_token = refresh_token_str])
    /\ UNCHANGED <<users, activation_tokens, password_reset_tokens, now,
                   next_token, activated, spent, exchanged>>

\* lines 231-269.  The refresh token is handed out after the commit alone and
\* the INSERT does not depend on what the handler has read, so the handler
\* is one step, at its commit.
Login(p) ==
    /\ Receive(p)
    /\ \E e \in Emails, pw \in Passwords :
          LET user == get_user_by_email(e)
              failure == LoginCheck(user, pw)
              refresh_token_str == create_refresh_token(user, next_jwt, now + REFRESH_JWT_DAYS)
          IN  IF failure.status # 0
              THEN /\ Finish(p, "login", For(e), failure)
                   /\ UNCHANGED <<refresh_tokens, next_jwt>>
              ELSE /\ next_jwt <= MaxLogins
                   /\ refresh_tokens' = refresh_tokens \cup
                         {RefreshTokenRow(user, refresh_token_str)}
                   /\ next_jwt' = next_jwt + 1
                   /\ Finish(p, "login", For(e), [Response(201, "") EXCEPT
                         !.access_token = create_access_token(user, now),
                         !.refresh_token = refresh_token_str])
    /\ UNCHANGED <<users, activation_tokens, password_reset_tokens, now,
                   next_token, activated, spent, exchanged>>

\* ----------------------------------------------------------------- refresh
\* Refresh tokens a caller can present: the ones login has stored, the same
\* signed with another key, and ones the codec signed that were never stored.
RefreshInputs ==
    LET stored == {r.token : r \in refresh_tokens} IN
    stored
    \cup {[t EXCEPT !.key = "access"] : t \in stored}
    \cup {create_refresh_token(u, 0, LOGIN_TIME_DAYS) : u \in 1..(Len(users) + 1)}

\* Variant: the expiry of the record is not checked.
SelectRefreshToken_NoExpiry(token) ==
    {r \in refresh_tokens : r.token = token}

\* Variant: the token string is not compared.
SelectRefreshToken_AnyToken(token) ==
    {r \in refresh_tokens : r.expires_at >= now}

\* lines 293-298
SelectRefreshToken(token) ==
    {r \in refresh_tokens : r.token = token /\ r.expires_at >= now}

\* lines 305-307: the id of the user, 0 for None.
SelectUserById(id) == IF id \in UserIds THEN id ELSE 0

\* lines 283-316
RefreshResponse(refresh_token) ==
    LET decoded == decode_refresh_token(refresh_token, now)
        rows == SelectRefreshToken(refresh_token)
        token == CHOOSE r \in rows : TRUE
        user == SelectUserById(decoded.user_id)
    IN  IF decoded.error # ""
        THEN Response(400, "Token has expired.")
        ELSE IF rows = {}
        THEN Response(401, "Refresh token not found.")
        ELSE IF user = 0 \/ token.user_id # user
        THEN Response(404, "User not found.")
        ELSE [Response(200, "") EXCEPT
                 !.access_token = create_access_token(user, now)]

\* Variant: the record of an exchanged token is deleted (single use).
RefreshAccessToken_SingleUse(p) ==
    /\ Receive(p)
    /\ \E t \in RefreshInputs :
          /\ Finish(p, "refresh", [Idle EXCEPT !.after = (t \in exchanged)],
                    RefreshResponse(t))
          /\ exchanged' = IF RefreshResponse(t).status = 200
                          THEN exchanged \cup {t}
                          ELSE exchanged
          /\ refresh_tokens' = IF RefreshResponse(t).status = 200
                               THEN {r \in refresh_tokens : r.token # t}
                               ELSE refresh_tokens
    /\ UNCHANGED <<users, activation_tokens, password_reset_tokens, now,
                   next_token, next_jwt, activated, spent>>

\* lines 283-316.  The handler writes nothing and the rows it reads are never
\* changed or deleted, so it is one step.
RefreshAccessToken(p) ==
    /\ Receive(p)
    /\ \E t \in RefreshInputs :
          /\ Finish(p, "refresh", [Idle EXCEPT !.after = (t \in exchanged)],
                    RefreshResponse(t))
          /\ exchanged' = IF RefreshResponse(t).status = 200
                          THEN exchanged \cup {t}
                          ELSE exchanged
    /\ UNCHANGED <<db, now, next_token, next_jwt, activated, spent>>

Next ==
    \/ Tick
    \/ \E p \in Procs : RegisterLookup(p)
    \/ \E p \in Procs : RegisterCommit(p)
    \/ \E p \in Procs : ActivateLookup(p)
    \/ \E p \in Procs : ActivateToken(p)
    \/ \E p \in Procs : ActivateCommit(p)
    \/ \E p \in Procs : ResetPasswordRequest(p)
    \/ \E p \in Procs : ResetLookup(p)
    \/ \E p \in Procs : ResetCommit(p)
    \/ \E p \in Procs : ResetPurge(p)
    \/ \E p \in Procs : Login(p)
    \/ \E p \in Procs : RefreshAccessToken(p)

Spec == Init /\ [][Next]_vars

\* ---------------------------------------------------------- storage failure
\* Variant: what a failed transaction had flushed stays in the table.
Aborted_Partial(before, written) == written

\* A transaction that fails is never committed: the session is closed with
\* the transaction open and the table keeps the rows it had.
Aborted(before, written) == before

\* lines 52-79: the flush of the user or the commit fails.
RegisterFault(p) ==
    /\ req[p].pc = "register_commit"
    /\ users' = Aborted(users,
                        Append(users, NewUser(req[p].email, req[p].password)))
    /\ Finish(p, "register", req[p],
              Response(500, "An error occurred during user creation."))
    /\ UNCHANGED <<activation_tokens, password_reset_tokens, refresh_tokens,
                   now, next_token, next_jwt, activated, spent, exchanged, served>>

\* lines 108-122: the UPDATE, the DELETE or the commit fails; nothing catches
\* the error.
ActivateFault(p) ==
    /\ req[p].pc = "activate_commit"
    /\ users' = Aborted(users, [users EXCEPT ![req[p].user].is_active = TRUE])
    /\ Finish(p, "activate", req[p], Response(500, "Internal Server Error"))
    /\ UNCHANGED <<activation_tokens, password_reset_tokens, refresh_tokens,
                   now, next_token, next_jwt, activated, spent, exchanged, served>>

\* lines 181-197, 202-215: a write of either branch fails with
\* SQLAlchemyError.
ResetFault(p) ==
    /\ req[p].pc \in {"reset_commit", "reset_purge"}
    /\ password_reset_tokens' =
          Aborted(password_reset_tokens,
                  IF req[p].pc = "reset_commit"
                  THEN DeletePasswordResetToken(req[p].row)
                  ELSE PurgePasswordResetTokens(req[p].user))
    /\ Finish(p, "reset", req[p],
              Response(500, "An error occurred while resetting the password."))
    /\ UNCHANGED <<users, activation_tokens, refresh_tokens, now, next_token,
                   next_jwt, activated, spent, exchanged, served>>

\* lines 144-153: the commit of the new token fails; nothing catches the
\* error.
ResetRequestFault(p) ==
    /\ Receive(p)
    /\ \E e \in Emails :
          LET user == SelectActiveUser(e) IN
          /\ user # 0
          /\ next_token <= MaxTokens
          /\ password_reset_tokens' =
                Aborted(password_reset_tokens,
                        password_reset_tokens \cup
                           {[id |-> next_token, token |-> next_token,
                             user_id |-> user,
                             expires_at |-> now + TOKEN_TTL_DAYS]})
          /\ Finish(p, "reset_request", For(e),
                    Response(500, "Internal Server Error"))
    /\ UNCHANGED <<users, activation_tokens, refresh_tokens, now, next_token,
                   next_jwt, activated, spent, exchanged>>

\* Variant: the tokens are handed out although the commit failed.
LoginFailure_Tokens(user, refresh_token_str) ==
    [Response(201, "") EXCEPT
        !.access_token = create_access_token(user, now),
        !.refresh_token = refresh_token_str]

\* lines 270-274
LoginFailure(user, refresh_token_str) ==
    Response(500, "An error occurred while processing the request.")

\* lines 251-261, 270-274: the checks pass and the commit of the refresh
\* token row fails with SQLAlchemyError.
LoginFault(p) ==
    /\ Receive(p)
    /\ \E e \in Emails, pw \in Passwords :
          LET user == get_user_by_email(e)
              refresh_token_str == create_refresh_token(user, next_jwt, now + REFRESH_JWT_DAYS)
          IN  /\ LoginCheck(user, pw).status = 0
              /\ next_jwt <= MaxLogins
              /\ refresh_tokens' =
                    Aborted(refresh_tokens,
                            refresh_tokens \cup
                               {RefreshTokenRow(user, refresh_token_str)})
              /\ Finish(p, "login", For(e),
                        LoginFailure(user, refresh_token_str))
    /\ UNCHANGED <<users, activation_tokens, password_reset_tokens, now,
                   next_token, next_jwt, activated, spent, exchanged>>

NextFault ==
    \/ Next
    \/ \E p \in Procs : RegisterFault(p)
    \/ \E p \in Procs : ActivateFault(p)
    \/ \E p \in Procs : ResetRequestFault(p)
    \/ \E p \in Procs : ResetFault(p)
    \/ \E p \in Procs : LoginFault(p)

\* The system with a storage layer whose writes can fail.
SpecFault == Init /\ [][NextFault]_vars

\* ================================================================== claims
Inactive(email) ==
    /\ get_user_by_email(email) # 0
    /\ ~users[get_user_by_email(email)].is_active

ResetTokensOf(email) ==
    {r \in password_reset_tokens :
        get_user_by_email(email) # 0 /\ r.user_id = get_user_by_email(email)}

\* C1 (as stated): an activate call that arrives after an activate with the
\* same email and token has succeeded is answered "Invalid or expired
\* activation token."
C1_LaterActivateIsInvalidOrExpired ==
    (last.op = "activate" /\ last.after)
        => last.resp = Response(400, "Invalid or expired activation token.")

\* C1 (amended): an activate that presents the account's unexpired token
\* succeeds, an activate succeeds only with such a token, and every activate
\* that arrives after a success with the same email and token is rejected
\* with "User account is already active.", never with a second success.
C1_ActivateSucceedsOnce ==
    last.op = "activate" =>
        /\ last.valid => last.resp.status = 200
        /\ last.resp.status = 200 => (last.valid /\ ~last.after)
        /\ last.after =>
              last.resp = Response(400, "User account is already active.")

C1_Witness ==
    /\ last.op = "activate"
    /\ last.after
    /\ last.resp.status = 400
    /\ Len(activated) = 1

\* C2: no <<email, token>> is the token of two successful activate calls.
C2_OneSuccessPerToken ==
    \A i, j \in DOMAIN activated : activated[i] = activated[j] => i = j

\* C3: a register call that creates no account is answered 409 Conflict.
C3_DuplicateRegisterIsConflict ==
    (last.op = "register" /\ last.resp.status # 201) => last.resp.status = 409

\* C4 (as stated): login on an inactive account is answered 403 "not
\* activated" whatever the password.
C4_InactiveLoginIsNotActivated ==
    (last.op = "login" /\ Inactive(last.email)) => last.resp.status = 403

\* C4 (amended): login on an inactive account is answered 403 "not activated"
\* when the password verifies and 401 "invalid email or password" when it
\* does not; either way it returns no token, and no refresh token record is
\* owned by an inactive account.
C4_InactiveLoginReturnsNoTokens ==
    /\ \A e \in Emails, pw \in Passwords :
          Inactive(e) =>
             LoginCheck(get_user_by_email(e), pw) =
                IF users[get_user_by_email(e)].hashed_password = hash_password(pw)
                THEN Response(403, "User account is not activated.")
                ELSE Response(401, "Invalid email or password.")
    /\ (last.op = "login" /\ Inactive(last.email)) =>
          /\ last.resp.status \in {401, 403}
          /\ last.resp.access_token = NoJwt
          /\ last.resp.refresh_token = NoJwt
    /\ \A r \in refresh_tokens : users[r.user_id].is_active

C4_Witness ==
    /\ last.op = "login"
    /\ Inactive(last.email)
    /\ last.resp.status = 401

\* C5: a refresh token that matches no persisted record with expires_at not
\* in the past is answered 400 or 401 and mints no access token, whatever
\* its signature; a minted access token is for the owner of a live record.
C5_NoAccessTokenWithoutLiveRecord ==
    /\ \A t \in RefreshInputs :
          (~\E r \in refresh_tokens : r.token = t /\ r.expires_at >= now) =>
             /\ RefreshResponse(t).status \in {400, 401}
             /\ RefreshResponse(t).access_token = NoJwt
    /\ (last.op = "refresh" /\ last.resp.access_token # NoJwt) =>
          \E r \in refresh_tokens :
             /\ r.expires_at >= now
             /\ r.user_id = last.resp.access_token.user_id

\* A record has expired while its token still decodes, and a refresh was
\* answered "not found".
C5_Witness ==
    /\ last.op = "refresh"
    /\ last.resp = Response(401, "Refresh token not found.")
    /\ \E r \in refresh_tokens :
          /\ r.expires_at < now
          /\ decode_refresh_token(r.token, now).error = ""

\* C6: the password-reset request is answered with the same acknowledgment
\* for every email, in every state.
C6_SameAcknowledgment ==
    LET ack == Response(200,
           "If you are registered, you will receive an email with instructions.")
    IN  /\ \A e \in Emails : ResetRequestResponse(SelectActiveUser(e)) = ack
        /\ last.op = "reset_request" => last.resp = ack

\* The request was made for an active account that had a pending token,
\* while the other email is unknown or inactive.
C6_Witness ==
    /\ last.op = "reset_request"
    /\ Cardinality(ResetTokensOf(last.email)) = 2
    /\ \E e \in Emails : SelectActiveUser(e) = 0

\* C7: a reset that presents a persisted unexpired token of the account
\* succeeds; its commit sets the digest to the hash of the new password and
\* removes the token row in one step; a reset that arrives after its token
\* was consumed is answered 400 and leaves the digests alone.
C7_ResetConsumesToken ==
    /\ [](last.op = "reset" =>
            /\ last.valid => last.resp = Response(200, "Password reset successfully.")
            /\ last.after => last.resp = Response(400, "Invalid email or token."))
    /\ [][\A p \in Procs :
            /\ (req[p].pc = "reset_commit" /\ req'[p].pc = "idle") =>
                  /\ users'[req[p].user].hashed_password =
                        hash_password(req[p].password)
                  /\ \A pw \in Passwords :
                        verify_password(users'[req[p].user], pw)
                           <=> pw = req[p].password
                  /\ ~\E r \in password_reset_tokens' : r.id = req[p].row
            /\ (req[p].pc = "reset_purge" /\ req'[p].pc = "idle") =>
                  users' = users]_vars

\* The reset succeeded and the password of the registration no longer
\* verifies.
C7_Witness ==
    /\ last.op = "reset"
    /\ last.valid
    /\ last.resp.status = 200
    /\ ~verify_password(users[get_user_by_email(last.email)], "Str0ng!pw")
    /\ ResetTokensOf(last.email) = {}

\* C8: a reset whose token is not a persisted unexpired token of the account
\* is answered 400 "Invalid email or token."; its commit leaves every digest
\* as it was and leaves the account the handler found for the email without
\* any reset token; a token removed this way never is a row again.
C8_FailedResetPurgesAll ==
    /\ [](/\ (last.op = "reset" /\ ~last.valid) =>
               last.resp = Response(400, "Invalid email or token.")
          /\ \A r \in password_reset_tokens : r.token \notin spent)
    /\ [][\A p \in Procs :
            (req[p].pc = "reset_purge" /\ req'[p].pc = "idle") =>
               /\ users' = users
               /\ \A r \in password_reset_tokens' : r.user_id # req[p].user]_vars

\* One failed attempt has removed two tokens of the account.
C8_Witness ==
    /\ last.op = "reset"
    /\ ~last.valid
    /\ last.resp.status = 400
    /\ Cardinality(spent) = 2
    /\ served = 5

\* C9: every activate that fails for an unknown email or an account that is
\* not active is answered "Invalid or expired activation token."
C9_OneGenericFailure ==
    (/\ last.op = "activate"
     /\ last.resp.status # 200
     /\ (get_user_by_email(last.email) = 0 \/ Inactive(last.email)))
        => last.resp = Response(400, "Invalid or expired activation token.")

\* C10: accounts are never removed, an active account stays active, an
\* account is created inactive, and an account becomes active only in the
\* step in which an activate for its email succeeds.
C10_ActiveIsMonotone ==
    [][/\ Len(users') >= Len(users)
       /\ \A i \in 1..Len(users') :
             /\ i > Len(users) => ~users'[i].is_active
             /\ (i <= Len(users) /\ users[i].is_active) => users'[i].is_active
             /\ (i <= Len(users) /\ ~users[i].is_active /\ users'[i].is_active) =>
                   /\ last'.op = "activate"
                   /\ last'.resp.status = 200
                   /\ last'.email = users[i].email]_vars

\* An account that is active has gone through a password reset and a second
\* account has been created.
C10_Witness ==
    /\ last.op = "reset"
    /\ last.resp.status = 200
    /\ users[get_user_by_email(last.email)].is_active
    /\ Len(users) = 2

\* C11: a login that returns a token returns both, with status 201, and a
\* persisted refresh token record holds the returned refresh token and is
\* owned by the account that logged in, for which the access token was
\* minted; a login whose commit fails returns no token and leaves the table
\* of refresh tokens as it was.
C11_NoTokensWithoutRecord ==
    /\ [](last.op = "login" =>
            /\ (last.resp.access_token # NoJwt \/ last.resp.refresh_token # NoJwt) =>
                  /\ last.resp.status = 201
                  /\ last.resp.access_token.key = "access"
                  /\ last.resp.access_token.user_id = get_user_by_email(last.email)
                  /\ \E r \in refresh_tokens :
                        /\ r.token = last.resp.refresh_token
                        /\ r.user_id = get_user_by_email(last.email)
            /\ last.resp.status = 201 => last.resp.access_token # NoJwt
            /\ last.resp.status = 500 =>
                  /\ last.resp.access_token = NoJwt
                  /\ last.resp.refresh_token = NoJwt)
    /\ [][(last'.op = "login" /\ last'.resp.status # 201) =>
             refresh_tokens' = refresh_tokens]_vars

\* The commit of a login failed after an earlier login of the account had
\* succeeded.
C11_Witness ==
    /\ last.op = "login"
    /\ last.resp.status = 500
    /\ \E r \in refresh_tokens : r.user_id = get_user_by_email(last.email)

\* C13: in every committed state an account is inactive exactly when an
\* activation token record is owned by it; a step changes the active flags
\* or the set of accounts exactly when it changes the activation tokens; a
\* register that fails leaves the accounts and the tokens as they were.
C13_InactiveIffTokenPending ==
    /\ [](\A i \in UserIds :
             ~users[i].is_active <=> \E r \in activation_tokens : r.user_id = i)
    /\ [][LET Flags(u) == [i \in DOMAIN u |-> u[i].is_active] IN
          /\ (Flags(users') # Flags(users))
                <=> (activation_tokens' # activation_tokens)
          /\ (last'.op = "register" /\ last'.resp.status # 201) =>
                (users' = users /\ activation_tokens' = activation_tokens)
          /\ (last'.op = "activate" /\ last'.resp.status # 200) =>
                (users' = users /\ activation_tokens' = activation_tokens)]_vars

\* A register failed at its writes and left no account, while another
\* account is active and a third is still pending.
C13_Witness ==
    /\ last.op = "register"
    /\ last.resp.status = 500
    /\ get_user_by_email(last.email) = 0
    /\ \E i \in UserIds : users[i].is_active

\* C12: a refresh leaves every table as it was and returns an access token
\* alone; in every state, each record that has not expired is exchangeable:
\* its token is answered 200 with an access token for the owner, whether or
\* not it was exchanged before; a refresh that arrives after its token was
\* exchanged is refused only for a record that has expired.
C12_RefreshIsRepeatable ==
    /\ [](/\ last.op = "refresh" =>
               /\ last.resp.refresh_token = NoJwt
               /\ last.resp.status = 200 => last.resp.access_token.key = "access"
               /\ last.resp.status # 200 => last.resp.access_token = NoJwt
          /\ \A r \in refresh_tokens :
                r.expires_at >= now =>
                   /\ RefreshResponse(r.token).status = 200
                   /\ RefreshResponse(r.token).access_token.user_id = r.user_id
          /\ (last.op = "refresh" /\ last.after /\ last.resp.status # 200) =>
                \E r \in refresh_tokens : r.token \in exchanged /\ r.expires_at < now
          /\ exchanged \subseteq {r.token : r \in refresh_tokens})
    /\ [][last'.op = "refresh" => db' = db]_vars

\* A refresh token was exchanged a second time.
C12_Witness ==
    /\ last.op = "refresh"
    /\ last.after
    /\ last.resp.status = 200

\* C14: two resets that present the same token do not both succeed: when a
\* reset of an account has just reported success, the next reset of that
\* account that reports success has removed its own token row, so its token
\* was still a row when it committed.
C14_OneResetPerToken ==
    [][\A p \in Procs :
          (/\ last.op = "reset"
           /\ last.resp.status = 200
           /\ last.email = req[p].email
           /\ req[p].pc = "reset_commit"
           /\ req'[p].pc = "idle"
           /\ last'.resp.status = 200)
             => \E r \in password_reset_tokens : r.id = req[p].row]_vars

\* C15: login answers 401 "invalid email or password" for an unknown email
\* and for a wrong password, whatever the active flag; it answers 403 "not
\* activated" exactly when the account exists, the password verifies and the
\* account is inactive; it returns tokens only when the account exists, the
\* password verifies and the account is active.
C15_LoginCheckOrder ==
    /\ \A e \in Emails, pw \in Passwords :
          LET user == get_user_by_email(e)
              known == user # 0
              verifies == known /\ users[user].hashed_password = hash_password(pw)
              active == known /\ users[user].is_active
              failure == LoginCheck(user, pw)
          IN  /\ (~known \/ ~verifies) =>
                    failure = Response(401, "Invalid email or password.")
              /\ failure.status = 403 <=> (known /\ verifies /\ ~active)
              /\ failure.status = 403 =>
                    failure = Response(403, "User account is not activated.")
              /\ failure.status = 0 <=> (known /\ verifies /\ active)
    /\ last.op = "login" =>
          /\ last.resp.status \in {201, 401, 403}
          /\ get_user_by_email(last.email) = 0 => last.resp.status = 401
          /\ last.resp.status = 403 => Inactive(last.email)
          /\ (last.resp.status = 201 \/ last.resp.access_token # NoJwt
                 \/ last.resp.refresh_token # NoJwt) =>
                /\ get_user_by_email(last.email) # 0
                /\ users[get_user_by_email(last.email)].is_active
                /\ last.resp.access_token # NoJwt
                /\ last.resp.refresh_token # NoJwt

\* A wrong password on an active account was answered 401 while the other
\* account is inactive.
C15_Witness ==
    /\ last.op = "login"
    /\ last.resp = Response(401, "Invalid email or password.")
    /\ get_user_by_email(last.email) # 0
    /\ users[get_user_by_email(last.email)].is_active
    /\ \E e \in Emails : Inactive(e)

\* C16: a refresh mints an access token exactly when the token decodes, a
\* record that has not expired holds exactly that token string and the
\* decoded subject is an existing account that owns the record; a token that
\* does not decode is answered 400 whatever the table holds, one that decodes
\* and has no live record 401, and one whose subject is not the owner 404.
C16_RefreshMintsIff ==
    /\ \A t \in RefreshInputs :
          LET decoded == decode_refresh_token(t, now)
              decodes == decoded.error = ""
              live == {r \in refresh_tokens : r.token = t /\ r.expires_at >= now}
              owned == \E r \in live :
                          decoded.user_id \in UserIds /\ r.user_id = decoded.user_id
              resp == RefreshResponse(t)
          IN  /\ resp.access_token # NoJwt <=> (decodes /\ live # {} /\ owned)
              /\ resp.status = 200 <=> resp.access_token # NoJwt
              /\ resp.status = 200 =>
                    resp.access_token = create_access_token(decoded.user_id, now)
              /\ ~decodes => resp = Response(400, "Token has expired.")
              /\ (decodes /\ live = {}) =>
                    resp = Response(401, "Refresh token not found.")
              /\ (decodes /\ live # {} /\ ~owned) =>
                    resp = Response(404, "User not found.")
    /\ last.op = "refresh" => last.resp.status \in {200, 400, 401, 404}

\* A refresh was answered 400 while a record is live, in a state where a
\* token the codec signed has expired.
C16_Witness ==
    /\ last.op = "refresh"
    /\ last.resp = Response(400, "Token has expired.")
    /\ \E r \in refresh_tokens : r.expires_at >= now
    /\ \E t \in RefreshInputs :
          decode_refresh_token(t, now).error = "TokenExpiredError"

\* C17: a password-reset request for the email of an active account adds
\* exactly one password-reset token record, owned by that account, with a
\* token string no record had, and leaves every other row as it was; for an
\* unknown email or an inactive account it leaves every table as it was.
\* Every password-reset token record is owned by an active account.
C17_ResetRequestFrame ==
    /\ [](\A r \in password_reset_tokens :
             r.user_id \in UserIds /\ users[r.user_id].is_active)
    /\ [][last'.op = "reset_request" =>
             LET user == get_user_by_email(last'.email)
                 added == password_reset_tokens' \ password_reset_tokens
             IN  /\ users' = users
                 /\ activation_tokens' = activation_tokens
                 /\ refresh_tokens' = refresh_tokens
                 /\ password_reset_tokens \subseteq password_reset_tokens'
                 /\ IF user # 0 /\ users[user].is_active
                    THEN /\ Cardinality(added) = 1
                         /\ \A r \in added :
                               /\ r.user_id = user
                               /\ r.expires_at = now + TOKEN_TTL_DAYS
                               /\ \A x \in password_reset_tokens :
                                     x.token # r.token /\ x.id # r.id
                    ELSE added = {}]_vars

\* A request for an inactive account changed nothing while the active
\* account has a pending token.
C17_Witness ==
    /\ last.op = "reset_request"
    /\ Inactive(last.email)
    /\ password_reset_tokens # {}

\* C18: an activate that does not succeed leaves every table as it was; an
\* activate is answered "Invalid or expired activation token." only when the
\* token it presented was not an unexpired token of the account; an inactive
\* account keeps its activation token record and, while the record has not
\* expired, the query of activate finds it; an activate received for an
\* account that is active is answered "User account is already active."
C18_FailedActivateFrame ==
    /\ [](/\ (/\ last.op = "activate"
              /\ last.resp = Response(400, "Invalid or expired activation token."))
                => ~last.valid
          /\ (last.op = "activate" /\ last.resp.status = 200) => last.valid
          /\ \A i \in UserIds :
                ~users[i].is_active =>
                   \E r \in activation_tokens :
                      /\ r.user_id = i
                      /\ r.token = i
                      /\ r.expires_at > now =>
                            r \in SelectActivationToken(r.token, i))
    /\ [][/\ (last'.op = "activate" /\ last'.resp.status # 200) => db' = db
          /\ (/\ last'.op = "activate"
              /\ served' # served
              /\ get_user_by_email(last'.email) # 0
              /\ users[get_user_by_email(last'.email)].is_active)
                => last'.resp = Response(400, "User account is already active.")]_vars

\* An activate of an inactive account failed, the account still has its
\* token record, and a second account exists whose token could be presented.
C18_Witness ==
    /\ last.op = "activate"
    /\ last.resp = Response(400, "Invalid or expired activation token.")
    /\ Inactive(last.email)
    /\ \E r \in activation_tokens : r.user_id = get_user_by_email(last.email)
    /\ Len(users) = 2

\* C19: no step removes or changes a refresh token record; a login that
\* succeeds adds exactly one, which holds the returned refresh token, is
\* owned by the account and expires LOGIN_TIME_DAYS later; the table holds
\* one record per successful login, and the token of each record that has
\* not expired is answered 200 by refresh.
C19_LoginKeepsEarlierRecords ==
    /\ [](/\ Cardinality(refresh_tokens) = next_jwt - 1
          /\ Cardinality({r.token : r \in refresh_tokens}) = next_jwt - 1
          /\ \A r \in refresh_tokens :
                r.expires_at >= now =>
                   RefreshResponse(r.token) =
                      [Response(200, "") EXCEPT
                          !.access_token = create_access_token(r.user_id, now)])
    /\ [][/\ refresh_tokens \subseteq refresh_tokens'
          /\ (last'.op = "login" /\ last'.resp.status = 201) =>
                LET added == refresh_tokens' \ refresh_tokens IN
                /\ Cardinality(added) = 1
                /\ \A r \in added :
                      /\ r.token = last'.resp.refresh_token
                      /\ r.user_id = get_user_by_email(last'.email)
                      /\ r.expires_at = now + LOGIN_TIME_DAYS
          /\ (last'.op = "login" /\ last'.resp.status # 201) =>
                refresh_tokens' = refresh_tokens]_vars

\* The second login of an account succeeded and both of its refresh tokens
\* are exchangeable.
C19_Witness ==
    /\ last.op = "login"
    /\ last.resp.status = 201
    /\ \E r1, r2 \in refresh_tokens :
          /\ r1 # r2
          /\ r1.user_id = r2.user_id
          /\ r2.token = last.resp.refresh_token
          /\ RefreshResponse(r1.token).status = 200
          /\ RefreshResponse(r2.token).status = 200

\* C20: a reset that succeeds leaves the refresh token records as they were
\* and every refresh token is answered after it as it was before it: a token
\* of the account whose record has not expired still mints an access token
\* for the account.
C20_ResetKeepsSessions ==
    /\ [](\A r \in refresh_tokens :
             (/\ last.op = "reset"
              /\ last.resp.status = 200
              /\ r.user_id = get_user_by_email(last.email)
              /\ r.expires_at >= now)
                => RefreshResponse(r.token).access_token =
                      create_access_token(r.user_id, now))
    /\ [][(last'.op = "reset" /\ last'.resp.status = 200) =>
             /\ refresh_tokens' = refresh_tokens
             /\ \A t \in RefreshInputs :
                   RefreshResponse(t)' = RefreshResponse(t)]_vars

\* The password of an account was reset after a login; the password of that
\* login no longer verifies and its refresh token still mints.
C20_Witness ==
    /\ last.op = "reset"
    /\ last.resp.status = 200
    /\ ~verify_password(users[get_user_by_email(last.email)], "Str0ng!pw")
    /\ \E r \in refresh_tokens :
          /\ r.user_id = get_user_by_email(last.email)
          /\ RefreshResponse(r.token).status = 200
====
